---- MODULE Spec2Model ----
(***************************************************************************)
(* The blog server of src/server.js as a state machine over its document   *)
(* store.  A request handler is a chain of store operations; every store   *)
(* operation is atomic on its own and the operations of different handlers *)
(* (and the ones a handler issues without awaiting them) interleave.  The  *)
(* operations already issued and not yet executed are the bag `pending`.   *)
(***************************************************************************)
EXTENDS Integers, FiniteSets, Sequences, Bags, TLC

\* Bounds of the model.
MaxComments == 3
MaxLikes == 2
MaxBlogs == 2
MaxReads == 1
MaxPending == 2

\* The accounts.  req.user and req.admin come from the verified token.
Users == {"u1", "u2", "u3"}
Admins == {"u1", "u2"}
isAdmin(u) == u \in Admins

NoId == 0
NoUser == "-"

VARIABLES
    comments,   \* the Comment collection: a set of documents
    notifs,     \* the Notification collection
    blogs,      \* the Blog collection
    users,      \* the User collection: user id -> account_info and blogs
    pending,    \* store operations issued and not yet executed (a bag)
    nextComment,\* the next fresh Comment _id
    nextLike,   \* the next fresh _id of a like Notification
    nextBlog,   \* the next fresh Blog _id / blog_id
    known,      \* the Comment ids the server has shown to its clients
    last,       \* the step just taken and the response it sent, if any
    pre         \* history: the request in progress and the store before it

vars == <<comments, notifs, blogs, users, pending, nextComment, nextLike,
          nextBlog, known, last, pre>>

store == <<comments, notifs, blogs, users>>

----------------------------------------------------------------------------
\* Documents and collections

Has(coll, id) == \E d \in coll : d._id = id
Doc(coll, id) == CHOOSE d \in coll : d._id = id
Replace(coll, id, d) == {x \in coll : x._id # id} \cup {d}
Remove(coll, id) == {x \in coll : x._id # id}

\* A store operation in flight.  One record shape for all of them:
\*   c, b, n: a Comment, Blog, Notification id; u: the acting user;
\*   p: the parent Comment id; nf: notification_for; kids: children; k: a delta
Op(op, c, b, u, p, nf, n, kids, k) ==
    [op |-> op, c |-> c, b |-> b, u |-> u, p |-> p, nf |-> nf, n |-> n,
     kids |-> kids, k |-> k]

Issue(ops) == pending (+) SetToBag(ops)
Take(o) == pending (-) SetToBag({o})
Swap(o, ops) == (pending (-) SetToBag({o})) (+) SetToBag(ops)
Quiescent == pending = EmptyBag

\* What a step reports: the handler or store operation, its user and
\* target, and the HTTP status sent in this step (0: no response sent).
Did(act, u, id, status) == [act |-> act, u |-> u, id |-> id, status |-> status]

\* The Notification of Comment c has _id c; a like Notification has an _id
\* above every Comment id.  Ids are opaque and unique, as ObjectIds are.
LikeNotifId(k) == MaxComments + k
NotifIds == 1..(MaxComments + MaxLikes)

----------------------------------------------------------------------------
\* The store when the server starts: user u1 has published one post (Blog 1)
\* and nothing has been commented, liked or read yet.

PublishedPayload == [desc |-> 200, banner |-> 1, blocks |-> 1, tags |-> 10]

NewBlog(id, author, payload, draft) ==
    [_id |-> id, author |-> author, draft |-> draft,
     desc |-> payload.desc, banner |-> payload.banner,
     blocks |-> payload.blocks, tags |-> payload.tags,
     comments |-> {}, total_likes |-> 0, total_reads |-> 0,
     total_comments |-> 0, total_parent_comments |-> 0]

NewUser == [total_posts |-> 0, total_reads |-> 0, blogs |-> {}]

Snap(req) ==
    [req |-> req, comments |-> comments, notifs |-> notifs, blogs |-> blogs,
     users |-> users]

\* No request of the kind the history follows is in progress.
NoSnap ==
    [req |-> Did("none", NoUser, NoId, 0), comments |-> {}, notifs |-> {},
     blogs |-> {}, users |-> [u \in Users |-> NewUser]]

Init ==
    /\ comments = {}
    /\ notifs = {}
    /\ blogs = {NewBlog(1, "u1", PublishedPayload, FALSE)}
    /\ users = [u \in Users |->
                  IF u = "u1" THEN [NewUser EXCEPT !.total_posts = 1, !.blogs = {1}]
                              ELSE NewUser]
    /\ pending = EmptyBag
    /\ nextComment = 1
    /\ nextLike = 1
    /\ nextBlog = 2
    /\ known = {}
    /\ last = Did("start", NoUser, NoId, 0)
    /\ pre = NoSnap

----------------------------------------------------------------------------
\* /add-comment

NewComment(c, b, ba, u, rt) ==
    [_id |-> c, blog_id |-> b, blog_author |-> ba, commented_by |-> u,
     parent |-> rt, children |-> {}]

\* Blog.findOneAndUpdate: $push comments, $inc total_comments and
\* total_parent_comments (0 for a reply).
AddCommentBlogUpdate(d, c, rt) ==
    [d EXCEPT !.comments = @ \cup {c},
              !.total_comments = @ + 1,
              !.total_parent_comments = @ + (IF rt # NoId THEN 0 ELSE 1)]

NotificationObj(c, b, nf, u, rt) ==
    [_id |-> c, type |-> IF rt # NoId THEN "reply" ELSE "comment", blog |-> b,
     notification_for |-> nf, user |-> u, comment |-> c,
     replied_on_comment |-> rt, reply |-> NoId]

\* The handler up to and including new Comment(commentObj).save(), and what
\* the save's callback issues at once.  txt: the comment text is not empty.
\* A client names only ids the server has shown it (replying_to,
\* notification_id); notification_id is read only when replying.
AddComment(u, b, ba, txt, rt, n) ==
    /\ nextComment <= MaxComments
    /\ rt \in known \cup {NoId}
    /\ n \in {d._id : d \in notifs} \cup {NoId}
    /\ rt = NoId => n = NoId
    /\ IF ~txt
       THEN /\ last' = Did("add-comment", u, NoId, 403)
            /\ UNCHANGED <<comments, pending, nextComment, known>>
       ELSE LET c == nextComment IN
            /\ comments' = comments \cup {NewComment(c, b, ba, u, rt)}
            /\ nextComment' = c + 1
            /\ pending' = Issue(
                 {Op("blogPush", c, b, NoUser, rt, NoUser, NoId, {}, 0)} \cup
                 (IF rt # NoId
                  THEN {Op("parentPush", c, b, u, rt, ba, n, {}, 0)}
                  ELSE {Op("notifSave", c, b, u, rt, ba, NoId, {}, 0)}))
            /\ known' = IF rt = NoId THEN known \cup {c} ELSE known
            /\ last' = Did("add-comment", u, c, IF rt = NoId THEN 200 ELSE 0)
    /\ UNCHANGED <<notifs, blogs, users, nextLike, nextBlog>>

BlogPush(o) ==
    /\ o.op = "blogPush"
    /\ blogs' = IF Has(blogs, o.b)
                THEN Replace(blogs, o.b, AddCommentBlogUpdate(Doc(blogs, o.b), o.c, o.p))
                ELSE blogs
    /\ pending' = Take(o)
    /\ last' = Did("blogPush", NoUser, o.c, 0)
    /\ UNCHANGED <<pre, comments, notifs, users, nextComment, nextLike, nextBlog, known>>

\* await Comment.findOneAndUpdate({ _id: replying_to }, $push children); its
\* callback reads commented_by of the document found and throws on null,
\* which ends the handler with no response and no notification.
ParentPush(o) ==
    /\ o.op = "parentPush"
    /\ IF Has(comments, o.p)
       THEN LET par == Doc(comments, o.p) IN
            /\ comments' = Replace(comments, o.p, [par EXCEPT !.children = @ \cup {o.c}])
            /\ pending' = Swap(o,
                 (IF o.n # NoId
                  THEN {Op("notifReply", o.c, o.b, NoUser, o.p, NoUser, o.n, {}, 0)}
                  ELSE {}) \cup
                 {Op("notifSave", o.c, o.b, o.u, o.p, par.commented_by, NoId, {}, 0)})
            /\ known' = known \cup {o.c}
            /\ last' = Did("parentPush", o.u, o.c, 200)
       ELSE /\ pending' = Take(o)
            /\ last' = Did("parentPush", o.u, o.c, 0)
            /\ UNCHANGED <<comments, known>>
    /\ UNCHANGED <<pre, notifs, blogs, users, nextComment, nextLike, nextBlog>>

\* Notification.findOneAndUpdate({ _id: notification_id }, { reply })
NotifReply(o) ==
    /\ o.op = "notifReply"
    /\ notifs' = IF Has(notifs, o.n)
                 THEN Replace(notifs, o.n, [Doc(notifs, o.n) EXCEPT !.reply = o.c])
                 ELSE notifs
    /\ pending' = Take(o)
    /\ last' = Did("notifReply", NoUser, o.c, 0)
    /\ UNCHANGED <<pre, comments, blogs, users, nextComment, nextLike, nextBlog, known>>

NotifSave(o) ==
    /\ o.op = "notifSave"
    /\ notifs' = notifs \cup {NotificationObj(o.c, o.b, o.nf, o.u, o.p)}
    /\ pending' = Take(o)
    /\ last' = Did("notifSave", NoUser, o.c, 0)
    /\ UNCHANGED <<pre, comments, blogs, users, nextComment, nextLike, nextBlog, known>>

----------------------------------------------------------------------------
\* deleteComments and /delete-comment

\* A handler that lets every signed-in user delete.
MayDelete_Anyone(u, d) == TRUE

\* user_id == comment.commented_by || user_id == comment.blog_author
MayDelete(u, d) == u = d.commented_by \/ u = d.blog_author

\* Comment.findOne, then the check; deleteComments(_id) issues its
\* findOneAndDelete before the response is sent.  A null document throws in
\* the callback, which has no catch: no response.
DeleteComment(u, c) ==
    /\ c \in known
    /\ IF ~Has(comments, c)
       THEN /\ last' = Did("delete-comment", u, c, 0)
            /\ UNCHANGED pending
       ELSE IF MayDelete(u, Doc(comments, c))
       THEN /\ pending' = Issue({Op("deleteComments", c, NoId, NoUser, NoId, NoUser, NoId, {}, 0)})
            /\ last' = Did("delete-comment", u, c, 200)
       ELSE /\ last' = Did("delete-comment", u, c, 403)
            /\ UNCHANGED pending
    /\ UNCHANGED <<comments, notifs, blogs, users, nextComment, nextLike, nextBlog, known>>

\* The operations the callback of Comment.findOneAndDelete issues.
CascadeOps(o, d) ==
    (IF d.parent # NoId
     THEN {Op("parentPull", o.c, d.blog_id, NoUser, d.parent, NoUser, NoId, {}, 0)}
     ELSE {}) \cup
    {Op("notifDelete", o.c, d.blog_id, NoUser, d.parent, NoUser, NoId, {}, 0),
     Op("notifUnset", o.c, d.blog_id, NoUser, d.parent, NoUser, NoId, {}, 0),
     Op("blogPull", o.c, d.blog_id, NoUser, d.parent, NoUser, NoId, d.children, 0)}

\* A cascade that does the Blog's bookkeeping also for a comment that is
\* already gone.
deleteComments_Again(o) ==
    /\ o.op = "deleteComments"
    /\ IF Has(comments, o.c)
       THEN /\ comments' = Remove(comments, o.c)
            /\ pending' = Swap(o, CascadeOps(o, Doc(comments, o.c)))
       ELSE /\ pending' = Swap(o, {Op("blogPull", o.c, 1, NoUser, NoId, NoUser, NoId, {}, 0)})
            /\ UNCHANGED comments
    /\ last' = Did("deleteComments", NoUser, o.c, 0)
    /\ UNCHANGED <<pre, notifs, blogs, users, nextComment, nextLike, nextBlog, known>>

\* Comment.findOneAndDelete({ _id }); on null the callback throws and the
\* catch logs it.
deleteComments(o) ==
    /\ o.op = "deleteComments"
    /\ IF Has(comments, o.c)
       THEN /\ comments' = Remove(comments, o.c)
            /\ pending' = Swap(o, CascadeOps(o, Doc(comments, o.c)))
       ELSE /\ pending' = Take(o)
            /\ UNCHANGED comments
    /\ last' = Did("deleteComments", NoUser, o.c, 0)
    /\ UNCHANGED <<pre, notifs, blogs, users, nextComment, nextLike, nextBlog, known>>

\* A pull that leaves the parent's children as they are.
ParentPull_Keeps(o) ==
    /\ o.op = "parentPull"
    /\ pending' = Take(o)
    /\ last' = Did("parentPull", NoUser, o.c, 0)
    /\ UNCHANGED <<pre, comments, notifs, blogs, users, nextComment, nextLike, nextBlog, known>>

ParentPull(o) ==
    /\ o.op = "parentPull"
    /\ comments' = IF Has(comments, o.p)
                   THEN Replace(comments, o.p,
                          [Doc(comments, o.p) EXCEPT !.children = @ \ {o.c}])
                   ELSE comments
    /\ pending' = Take(o)
    /\ last' = Did("parentPull", NoUser, o.c, 0)
    /\ UNCHANGED <<pre, notifs, blogs, users, nextComment, nextLike, nextBlog, known>>

\* Notification.findOneAndDelete({ comment: _id }): one matching document.
NotifDelete(o) ==
    /\ o.op = "notifDelete"
    /\ IF \E d \in notifs : d.comment = o.c
       THEN \E d \in notifs : d.comment = o.c /\ notifs' = notifs \ {d}
       ELSE UNCHANGED notifs
    /\ pending' = Take(o)
    /\ last' = Did("notifDelete", NoUser, o.c, 0)
    /\ UNCHANGED <<pre, comments, blogs, users, nextComment, nextLike, nextBlog, known>>

\* A cascade that deletes the Notification it should only unlink.
NotifUnset_Deletes(o) ==
    /\ o.op = "notifUnset"
    /\ notifs' = {d \in notifs : d.reply # o.c}
    /\ pending' = Take(o)
    /\ last' = Did("notifUnset", NoUser, o.c, 0)
    /\ UNCHANGED <<pre, comments, blogs, users, nextComment, nextLike, nextBlog, known>>

\* Notification.findOneAndUpdate({ reply: _id }, { $unset: { reply: 1 } })
NotifUnset(o) ==
    /\ o.op = "notifUnset"
    /\ IF \E d \in notifs : d.reply = o.c
       THEN \E d \in notifs :
              d.reply = o.c /\ notifs' = Replace(notifs, d._id, [d EXCEPT !.reply = NoId])
       ELSE UNCHANGED notifs
    /\ pending' = Take(o)
    /\ last' = Did("notifUnset", NoUser, o.c, 0)
    /\ UNCHANGED <<pre, comments, blogs, users, nextComment, nextLike, nextBlog, known>>

\* Blog.findOneAndUpdate({ _id: comment.blog_id }, { $pull, $inc: {
\* total_comments: -1 }, "activity.total_parent_comments": parent ? 0 : -1 }):
\* the last key stands outside $inc, and Mongoose casts a top-level key that
\* is no operator into $set.
DeleteCommentBlogUpdate(d, c, p) ==
    [d EXCEPT !.comments = @ \ {c},
              !.total_comments = @ - 1,
              !.total_parent_comments = IF p # NoId THEN 0 ELSE -1]

\* A cascade that stops at the comment it was called for.
Replies_None(o) == {}

\* deleteComments(replies) for each of comment.children
Replies(o) ==
    {Op("deleteComments", k, NoId, NoUser, NoId, NoUser, NoId, {}, 0) : k \in o.kids}

BlogPull(o) ==
    /\ o.op = "blogPull"
    /\ blogs' = IF Has(blogs, o.b)
                THEN Replace(blogs, o.b, DeleteCommentBlogUpdate(Doc(blogs, o.b), o.c, o.p))
                ELSE blogs
    /\ pending' = Swap(o, Replies(o))
    /\ last' = Did("blogPull", NoUser, o.c, 0)
    /\ UNCHANGED <<pre, comments, notifs, users, nextComment, nextLike, nextBlog, known>>

----------------------------------------------------------------------------
\* /like-blog

\* A handler that takes a like back by 2.
incrementVal_Off2(isLikedByUser) == IF ~isLikedByUser THEN 1 ELSE -2

\* let incrementVal = !isLikedByUser ? 1 : isLikedByUser > 0 ? -1 : 0, for
\* the booleans the client sends.
incrementVal(isLikedByUser) == IF ~isLikedByUser THEN 1 ELSE -1

LikeObj(id, b, nf, u) ==
    [_id |-> id, type |-> "like", blog |-> b, notification_for |-> nf,
     user |-> u, comment |-> NoId, replied_on_comment |-> NoId, reply |-> NoId]

SavesInFlight ==
    Cardinality({o \in BagToSet(pending) : o.op = "likeSave"})

\* Blog.findOneAndUpdate({ _id }, $inc total_likes) and what its callback
\* issues: the save of a like Notification (the callback reads blog.author
\* and throws on null, with no response), or the delete of one.
LikeBlog(u, b, isLikedByUser) ==
    /\ ~isLikedByUser => nextLike + SavesInFlight <= MaxLikes
    /\ (isLikedByUser /\ Has(blogs, b)) => Doc(blogs, b).total_likes > -MaxLikes
    /\ blogs' = IF Has(blogs, b)
                THEN Replace(blogs, b,
                       [Doc(blogs, b) EXCEPT !.total_likes = @ + incrementVal(isLikedByUser)])
                ELSE blogs
    /\ pending' =
         IF isLikedByUser
         THEN Issue({Op("likeDelete", NoId, b, u, NoId, NoUser, NoId, {}, 0)})
         ELSE IF Has(blogs, b)
         THEN Issue({Op("likeSave", NoId, b, u, NoId, Doc(blogs, b).author, NoId, {}, 0)})
         ELSE pending
    /\ last' = Did(IF isLikedByUser THEN "unlike" ELSE "like", u, b, 0)
    /\ UNCHANGED <<comments, notifs, users, nextComment, nextLike, nextBlog, known>>

LikeSave(o) ==
    /\ o.op = "likeSave"
    /\ notifs' = notifs \cup {LikeObj(LikeNotifId(nextLike), o.b, o.nf, o.u)}
    /\ nextLike' = nextLike + 1
    /\ pending' = Take(o)
    /\ last' = Did("likeSave", o.u, o.b, 200)
    /\ UNCHANGED <<pre, comments, blogs, users, nextComment, nextBlog, known>>

\* A delete that removes nothing.
LikeDelete_Keeps(o) ==
    /\ o.op = "likeDelete"
    /\ pending' = Take(o)
    /\ last' = Did("likeDelete", o.u, o.b, 200)
    /\ UNCHANGED <<pre, comments, notifs, blogs, users, nextComment, nextLike, nextBlog, known>>

\* Notification.findOneAndDelete({ user, blog, type: "like" })
LikeDelete(o) ==
    /\ o.op = "likeDelete"
    /\ IF \E d \in notifs : d.user = o.u /\ d.blog = o.b /\ d.type = "like"
       THEN \E d \in notifs :
              d.user = o.u /\ d.blog = o.b /\ d.type = "like" /\ notifs' = notifs \ {d}
       ELSE UNCHANGED notifs
    /\ pending' = Take(o)
    /\ last' = Did("likeDelete", o.u, o.b, 200)
    /\ UNCHANGED <<pre, comments, blogs, users, nextComment, nextLike, nextBlog, known>>

----------------------------------------------------------------------------
\* /create-blog

\* A request body by the lengths the handler reads: title, desc, banner,
\* content.blocks, tags.
Payload(title, desc, banner, blocks, tags) ==
    [title |-> title, desc |-> desc, banner |-> banner, blocks |-> blocks,
     tags |-> tags]

Payloads ==
    {Payload(1, 200, 1, 1, 10), Payload(0, 200, 1, 1, 10), Payload(0, 0, 1, 1, 10),
     Payload(1, 0, 1, 1, 10), Payload(1, 201, 1, 1, 10), Payload(1, 200, 0, 1, 10),
     Payload(1, 200, 1, 0, 10), Payload(1, 200, 1, 1, 0), Payload(1, 200, 1, 1, 11)}

\* A handler that publishes whatever has a title.
Publishable_Any(pl) == TRUE

\* The checks under if(!draft)
Publishable(pl) ==
    /\ ~(pl.desc = 0 \/ pl.desc > 200)
    /\ ~(pl.banner = 0)
    /\ ~(pl.blocks = 0)
    /\ ~(pl.tags = 0 \/ pl.tags > 10)

\* The status of the synchronous checks (0: the request goes on).
Rejection(u, pl, draft) ==
    IF ~isAdmin(u) THEN 500
    ELSE IF pl.title = 0 THEN 403
    ELSE IF ~draft /\ ~Publishable(pl) THEN 403
    ELSE 0

\* Blog.findOneAndUpdate({ blog_id }, { title, desc, banner, content, tags, draft })
Edited(d, pl, draft) ==
    [d EXCEPT !.desc = pl.desc, !.banner = pl.banner, !.blocks = pl.blocks,
              !.tags = pl.tags, !.draft = draft]

CreateBlog(u, pl, draft, id) ==
    /\ id = NoId => nextBlog <= MaxBlogs
    /\ IF Rejection(u, pl, draft) # 0
       THEN /\ last' = Did("create-blog", u, id, Rejection(u, pl, draft))
            /\ UNCHANGED <<blogs, pending, nextBlog>>
       ELSE IF id # NoId
       THEN /\ blogs' = IF Has(blogs, id)
                        THEN Replace(blogs, id, Edited(Doc(blogs, id), pl, draft))
                        ELSE blogs
            /\ last' = Did("create-blog", u, id, 200)
            /\ UNCHANGED <<pending, nextBlog>>
       ELSE /\ blogs' = blogs \cup {NewBlog(nextBlog, u, pl, draft)}
            /\ nextBlog' = nextBlog + 1
            /\ pending' = Issue({Op("userPosts", NoId, nextBlog, u, NoId, NoUser, NoId, {},
                                    IF draft THEN 0 ELSE 1)})
            /\ last' = Did("create-blog", u, nextBlog, 0)
    /\ UNCHANGED <<comments, notifs, users, nextComment, nextLike, known>>

\* User.findOneAndUpdate({ _id: authorId }, $inc total_posts, $push blogs)
\* resolves: 200.
UserPosts(o) ==
    /\ o.op = "userPosts"
    /\ users' = [users EXCEPT ![o.u].total_posts = @ + o.k, ![o.u].blogs = @ \cup {o.b}]
    /\ pending' = Take(o)
    /\ last' = Did("userPosts", o.u, o.b, 200)
    /\ UNCHANGED <<pre, comments, notifs, blogs, nextComment, nextLike, nextBlog, known>>

\* The same update rejects: its catch answers 500.
UserPostsFails(o) ==
    /\ o.op = "userPosts"
    /\ pending' = Take(o)
    /\ last' = Did("userPosts", o.u, o.b, 500)
    /\ UNCHANGED <<pre, comments, notifs, blogs, users, nextComment, nextLike, nextBlog, known>>

----------------------------------------------------------------------------
\* /get-blog

\* Blog.findOneAndUpdate({ blog_id }, $inc total_reads by 1, or by 0 in edit
\* mode); on null the callback throws and the catch answers 500.  The
\* document is selected without draft, so the draft check never refuses.
GetBlog(b, edit) ==
    /\ (Has(blogs, b) /\ ~edit) => Doc(blogs, b).total_reads < MaxReads
    /\ IF Has(blogs, b)
       THEN /\ blogs' = Replace(blogs, b,
                           [Doc(blogs, b) EXCEPT !.total_reads = @ + (IF edit THEN 0 ELSE 1)])
            /\ pending' = Issue({Op("userReads", NoId, b, Doc(blogs, b).author, NoId, NoUser,
                                    NoId, {}, IF edit THEN 0 ELSE 1)})
            /\ last' = Did("get-blog", NoUser, b, 200)
       ELSE /\ last' = Did("get-blog", NoUser, b, 500)
            /\ UNCHANGED <<blogs, pending>>
    /\ UNCHANGED <<comments, notifs, users, nextComment, nextLike, nextBlog, known>>

\* User.findOneAndUpdate({ username }, $inc total_reads) resolves.
UserReads(o) ==
    /\ o.op = "userReads"
    /\ users' = [users EXCEPT ![o.u].total_reads = @ + o.k]
    /\ pending' = Take(o)
    /\ last' = Did("userReads", o.u, o.b, 0)
    /\ UNCHANGED <<pre, comments, notifs, blogs, nextComment, nextLike, nextBlog, known>>

\* The same update rejects: its catch runs after the 200 has been sent.
UserReadsFails(o) ==
    /\ o.op = "userReads"
    /\ pending' = Take(o)
    /\ last' = Did("userReadsFails", o.u, o.b, 0)
    /\ UNCHANGED <<pre, comments, notifs, blogs, users, nextComment, nextLike, nextBlog, known>>

----------------------------------------------------------------------------
\* /delete-blog

\* if (isAdmin)
MayDeleteBlog(u, d) == isAdmin(u)

\* Blog.findOneAndDelete({ blog_id }); on null the callback throws and the
\* catch answers 500.
DeleteBlog(u, b) ==
    /\ IF ~Has(blogs, b)
       THEN /\ last' = Did("delete-blog", u, b, 500)
            /\ UNCHANGED <<blogs, pending>>
       ELSE IF MayDeleteBlog(u, Doc(blogs, b))
       THEN /\ blogs' = Remove(blogs, b)
            /\ pending' = Issue({Op("notifDeleteMany", NoId, b, NoUser, NoId, NoUser, NoId, {}, 0),
                                 Op("commentDeleteMany", NoId, b, NoUser, NoId, NoUser, NoId, {}, 0),
                                 Op("userPostsDown", NoId, b, u, NoId, NoUser, NoId, {}, -1)})
            /\ last' = Did("delete-blog", u, b, 200)
       ELSE /\ last' = Did("delete-blog", u, b, 500)
            /\ UNCHANGED <<blogs, pending>>
    /\ UNCHANGED <<comments, notifs, users, nextComment, nextLike, nextBlog, known>>

\* Notification.deleteMany({ blog: blog._id })
NotifDeleteMany(o) ==
    /\ o.op = "notifDeleteMany"
    /\ notifs' = {d \in notifs : d.blog # o.b}
    /\ pending' = Take(o)
    /\ last' = Did("notifDeleteMany", NoUser, o.b, 0)
    /\ UNCHANGED <<pre, comments, blogs, users, nextComment, nextLike, nextBlog, known>>

\* Comment.deleteMany({ blog_id: blog._id })
CommentDeleteMany(o) ==
    /\ o.op = "commentDeleteMany"
    /\ comments' = {d \in comments : d.blog_id # o.b}
    /\ pending' = Take(o)
    /\ last' = Did("commentDeleteMany", NoUser, o.b, 0)
    /\ UNCHANGED <<pre, notifs, blogs, users, nextComment, nextLike, nextBlog, known>>

\* User.findOneAndUpdate({ _id: user_id }, { $pull: { blog }, $inc:
\* total_posts -1 }): the $pull names a path the User has not (its array is
\* blogs).
UserPostsDown(o) ==
    /\ o.op = "userPostsDown"
    /\ users' = [users EXCEPT ![o.u].total_posts = @ + o.k]
    /\ pending' = Take(o)
    /\ last' = Did("userPostsDown", o.u, o.b, 0)
    /\ UNCHANGED <<pre, comments, notifs, blogs, nextComment, nextLike, nextBlog, known>>

----------------------------------------------------------------------------
\* Specifications

BlogIds == 1..MaxBlogs

\* Every request carries as blog_author the author of Blog 1.
BlogAuthors == {"u1"}

\* add-comment requests by the users US on the blogs BS, with a
\* notification_id of NS; delete-comment requests by the users US.
AddCommentFrom(US, BS, NS) ==
    \E u \in US, b \in BS, ba \in BlogAuthors, txt \in BOOLEAN,
       rt \in 0..MaxComments, n \in NS :
        AddComment(u, b, ba, txt, rt, n)

DeleteCommentFrom(US) == \E u \in US, c \in 1..MaxComments : DeleteComment(u, c)

\* The history: the request just admitted and the store it found.
Follow == pre' = Snap(last')

\* Requests arrive one at a time, each after the store operations of the
\* one before have all run.  Comments on Blog 1 and on a Blog id that names
\* no Blog, all by the author of Blog 1.
NextTree ==
    \/ Quiescent /\ AddCommentFrom({"u1"}, BlogIds, {NoId}) /\ Follow
    \/ Quiescent /\ DeleteCommentFrom({"u1"}) /\ Follow
    \/ \E o \in BagToSet(pending) : BlogPush(o)
    \/ \E o \in BagToSet(pending) : ParentPush(o)
    \/ \E o \in BagToSet(pending) : NotifSave(o)
    \/ \E o \in BagToSet(pending) : deleteComments(o)
    \/ \E o \in BagToSet(pending) : ParentPull(o)
    \/ \E o \in BagToSet(pending) : NotifDelete(o)
    \/ \E o \in BagToSet(pending) : NotifUnset(o)
    \/ \E o \in BagToSet(pending) : BlogPull(o)

SpecTree == Init /\ [][NextTree]_vars

\* The same on Blog 1, with replies that name the notification they answer.
NextNotif ==
    \/ Quiescent /\ AddCommentFrom({"u1"}, {1}, {NoId} \cup NotifIds) /\ Follow
    \/ Quiescent /\ DeleteCommentFrom({"u1"}) /\ Follow
    \/ \E o \in BagToSet(pending) : BlogPush(o)
    \/ \E o \in BagToSet(pending) : ParentPush(o)
    \/ \E o \in BagToSet(pending) : NotifReply(o)
    \/ \E o \in BagToSet(pending) : NotifSave(o)
    \/ \E o \in BagToSet(pending) : deleteComments(o)
    \/ \E o \in BagToSet(pending) : ParentPull(o)
    \/ \E o \in BagToSet(pending) : NotifDelete(o)
    \/ \E o \in BagToSet(pending) : NotifUnset(o)
    \/ \E o \in BagToSet(pending) : BlogPull(o)

SpecNotif == Init /\ [][NextNotif]_vars

\* The same on Blog 1, with requests of every user.
NextAuth ==
    \/ Quiescent /\ AddCommentFrom(Users, {1}, {NoId}) /\ Follow
    \/ Quiescent /\ DeleteCommentFrom(Users) /\ Follow
    \/ \E o \in BagToSet(pending) : BlogPush(o)
    \/ \E o \in BagToSet(pending) : ParentPush(o)
    \/ \E o \in BagToSet(pending) : NotifSave(o)
    \/ \E o \in BagToSet(pending) : deleteComments(o)
    \/ \E o \in BagToSet(pending) : ParentPull(o)
    \/ \E o \in BagToSet(pending) : NotifDelete(o)
    \/ \E o \in BagToSet(pending) : NotifUnset(o)
    \/ \E o \in BagToSet(pending) : BlogPull(o)

SpecAuth == Init /\ [][NextAuth]_vars

\* Requests arrive at any time, also while the store operations of earlier
\* requests are in flight (up to MaxPending of them).
Admit == BagCardinality(pending) < MaxPending

NextConc ==
    \/ Admit /\ AddCommentFrom({"u1"}, {1}, {NoId}) /\ UNCHANGED pre
    \/ Admit /\ DeleteCommentFrom({"u1"}) /\ UNCHANGED pre
    \/ \E o \in BagToSet(pending) : BlogPush(o)
    \/ \E o \in BagToSet(pending) : ParentPush(o)
    \/ \E o \in BagToSet(pending) : NotifSave(o)
    \/ \E o \in BagToSet(pending) : deleteComments(o)
    \/ \E o \in BagToSet(pending) : ParentPull(o)
    \/ \E o \in BagToSet(pending) : NotifDelete(o)
    \/ \E o \in BagToSet(pending) : NotifUnset(o)
    \/ \E o \in BagToSet(pending) : BlogPull(o)

SpecConc == Init /\ [][NextConc]_vars

\* like-blog requests of every user on Blog 1 and on an id that names no
\* Blog, one at a time.  The history keeps the store from before a like
\* through the unlike of the same user and blog that follows it.
OnThenOff ==
    /\ last'.act = "unlike"
    /\ pre.req.act = "like"
    /\ pre.req.u = last'.u
    /\ pre.req.id = last'.id

NextLike ==
    \/ /\ Quiescent
       /\ \E u \in Users, b \in BlogIds, isLikedByUser \in BOOLEAN : LikeBlog(u, b, isLikedByUser)
       /\ pre' = IF OnThenOff
                 THEN [pre EXCEPT !.req = Did("like-unlike", last'.u, last'.id, 0)]
                 ELSE Snap(last')
    \/ \E o \in BagToSet(pending) : LikeSave(o)
    \/ \E o \in BagToSet(pending) : LikeDelete(o)

SpecLike == Init /\ [][NextLike]_vars

\* create-blog, get-blog and delete-blog requests of every user, one at a
\* time.
NextPublish ==
    \/ /\ Quiescent
       /\ \E u \in Users, pl \in Payloads, draft \in BOOLEAN, id \in {NoId} \cup BlogIds :
            CreateBlog(u, pl, draft, id)
       /\ UNCHANGED pre
    \/ Quiescent /\ (\E b \in BlogIds, edit \in BOOLEAN : GetBlog(b, edit)) /\ UNCHANGED pre
    \/ Quiescent /\ (\E u \in Users, b \in BlogIds : DeleteBlog(u, b)) /\ UNCHANGED pre
    \/ \E o \in BagToSet(pending) : UserPosts(o)
    \/ \E o \in BagToSet(pending) : UserPostsFails(o)
    \/ \E o \in BagToSet(pending) : UserReads(o)
    \/ \E o \in BagToSet(pending) : UserReadsFails(o)
    \/ \E o \in BagToSet(pending) : NotifDeleteMany(o)
    \/ \E o \in BagToSet(pending) : CommentDeleteMany(o)
    \/ \E o \in BagToSet(pending) : UserPostsDown(o)

SpecPublish == Init /\ [][NextPublish]_vars

\* create-blog requests of every user, one at a time.
NextDraft ==
    \/ /\ Quiescent
       /\ \E u \in Users, pl \in Payloads, draft \in BOOLEAN, id \in {NoId} \cup BlogIds :
            CreateBlog(u, pl, draft, id)
       /\ UNCHANGED pre
    \/ \E o \in BagToSet(pending) : UserPosts(o)
    \/ \E o \in BagToSet(pending) : UserPostsFails(o)

SpecDraft == Init /\ [][NextDraft]_vars

\* Comments and likes of u2 and u3 on Blog 1, and delete-blog requests of
\* every user, one at a time.
NextDeleteBlog ==
    \/ Quiescent /\ AddCommentFrom({"u2", "u3"}, {1}, {NoId}) /\ Follow
    \/ /\ Quiescent
       /\ \E u \in {"u2", "u3"}, isLikedByUser \in BOOLEAN : LikeBlog(u, 1, isLikedByUser)
       /\ Follow
    \/ Quiescent /\ (\E u \in Users, b \in BlogIds : DeleteBlog(u, b)) /\ Follow
    \/ \E o \in BagToSet(pending) : BlogPush(o)
    \/ \E o \in BagToSet(pending) : ParentPush(o)
    \/ \E o \in BagToSet(pending) : NotifSave(o)
    \/ \E o \in BagToSet(pending) : LikeSave(o)
    \/ \E o \in BagToSet(pending) : LikeDelete(o)
    \/ \E o \in BagToSet(pending) : NotifDeleteMany(o)
    \/ \E o \in BagToSet(pending) : CommentDeleteMany(o)
    \/ \E o \in BagToSet(pending) : UserPostsDown(o)

SpecDeleteBlog == Init /\ [][NextDeleteBlog]_vars

----------------------------------------------------------------------------
\* The cascading delete, from the store before the request to the store
\* after the last operation it set off.

Ids(coll) == {d._id : d \in coll}

\* The comment r and the replies reachable from it through children.
Subtree(coll, r) ==
    LET Grow[i \in 0..MaxComments] ==
            IF i = 0 THEN {r}
            ELSE Grow[i - 1] \cup
                 UNION {d.children : d \in {x \in coll : x._id \in Grow[i - 1]}}
    IN  Grow[MaxComments] \cap Ids(coll)

CascadeDone == Quiescent /\ pre.req.act = "delete-comment" /\ pre.req.status = 200
Root == Doc(pre.comments, pre.req.id)
Deleted == Subtree(pre.comments, pre.req.id)
OwnedBy(b, S) == {d \in pre.comments : d._id \in S /\ d.blog_id = b}

\* C1: once deleteComments(c) and the calls it sets off have completed,
\* exactly the N+1 comments of c's subtree are gone, no other comment is, and
\* every blog's total_comments is lower by the number of removed comments it
\* owns: by N+1 on blog B when the subtree is on B.
C1_CascadeRemovesSubtree ==
    CascadeDone =>
        /\ Ids(comments) = Ids(pre.comments) \ Deleted
        /\ \A b \in pre.blogs :
             /\ Has(blogs, b._id)
             /\ Doc(blogs, b._id).total_comments =
                   b.total_comments - Cardinality(OwnedBy(b._id, Deleted))
        /\ (Has(pre.blogs, Root.blog_id) /\ OwnedBy(Root.blog_id, Deleted) = {d \in pre.comments : d._id \in Deleted})
             => Doc(blogs, Root.blog_id).total_comments =
                   Doc(pre.blogs, Root.blog_id).total_comments - Cardinality(Deleted)

\* A comment with a reply that has a reply of its own, all on Blog 1, deleted.
C1_Witness ==
    /\ CascadeDone
    /\ Cardinality(Deleted) = 3
    /\ Cardinality(OwnedBy(1, Deleted)) = 3
    /\ \E d \in pre.comments : d.parent = pre.req.id /\ d.children # {}
    /\ comments = {}

\* C2: deleting a reply leaves the blog's total_parent_comments unchanged and
\* deleting a top-level comment lowers it by exactly 1 over the whole cascade.
C2_ParentCounter ==
    (CascadeDone /\ Has(pre.blogs, Root.blog_id)) =>
        Doc(blogs, Root.blog_id).total_parent_comments =
            Doc(pre.blogs, Root.blog_id).total_parent_comments
              - (IF Root.parent = NoId THEN 1 ELSE 0)

\* C3, as claimed: after the cascade no Notification has a comment of the
\* subtree, and every Notification whose reply was in the subtree still
\* exists with reply cleared and nothing else changed.
C3_Claimed ==
    CascadeDone =>
        /\ \A d \in notifs : d.comment \notin Deleted
        /\ \A d \in pre.notifs :
             d.reply \in Deleted => [d EXCEPT !.reply = NoId] \in notifs

\* C3, amended: the Notifications that survive with reply cleared are those
\* whose own comment is not in the subtree.
C3_Notifications ==
    CascadeDone =>
        /\ \A d \in notifs : d.comment \notin Deleted
        /\ \A d \in pre.notifs :
             (d.reply \in Deleted /\ d.comment \notin Deleted)
                 => [d EXCEPT !.reply = NoId] \in notifs

\* A deleted reply that a surviving Notification named as its reply.
C3_Witness ==
    /\ CascadeDone
    /\ \E d \in pre.notifs :
         /\ d.reply \in Deleted
         /\ d.comment \notin Deleted
         /\ d \notin notifs
         /\ [d EXCEPT !.reply = NoId] \in notifs

\* C5, as claimed: in every reachable state every id in the children of an
\* existing comment is an existing comment whose parent is that comment.
C5_Claimed ==
    \A p \in comments : \A k \in p.children :
        Has(comments, k) /\ Doc(comments, k).parent = p._id

PullInFlight(p, k) ==
    \E o \in BagToSet(pending) : o.op = "parentPull" /\ o.p = p /\ o.c = k

\* C5, amended: the same, except for a reply just deleted whose pull from
\* its parent's children is still in flight.
C5_Children ==
    \A p \in comments : \A k \in p.children :
        \/ Has(comments, k) /\ Doc(comments, k).parent = p._id
        \/ PullInFlight(p._id, k)

\* A reply already deleted that its parent still lists, the pull in flight.
C5_Witness ==
    \E p \in comments : \E k \in p.children :
        ~Has(comments, k) /\ PullInFlight(p._id, k)

\* C7: when the follow-ups of an accepted add-comment on blog B have run,
\* the new id is in B.comments, total_comments is up by 1,
\* total_parent_comments is up by 1 exactly for a top-level comment, and a
\* reply is among its parent's children.
AddDone == Quiescent /\ pre.req.act = "add-comment" /\ pre.req.id # NoId
Added == Doc(comments, pre.req.id)

C7_FollowUpsApplied ==
    (AddDone /\ Has(pre.blogs, Added.blog_id)) =>
        LET before == Doc(pre.blogs, Added.blog_id)
            after == Doc(blogs, Added.blog_id)
        IN  /\ after.comments = before.comments \cup {Added._id}
            /\ after.total_comments = before.total_comments + 1
            /\ after.total_parent_comments =
                 before.total_parent_comments + (IF Added.parent = NoId THEN 1 ELSE 0)
            /\ Added.parent # NoId =>
                 /\ Has(comments, Added.parent)
                 /\ Added._id \in Doc(comments, Added.parent).children

\* C8: a delete-comment request for an existing comment by a user who is
\* neither its commented_by nor its blog_author is answered 403 and changes
\* nothing; only a request by one of the two starts the cascade.
C8_OnlyAuthorsDelete ==
    [][(last'.act = "delete-comment" /\ Has(comments, last'.id)) =>
          LET d == Doc(comments, last'.id) IN
          IF last'.u = d.commented_by \/ last'.u = d.blog_author
          THEN /\ last'.status = 200
               /\ pending' # pending
          ELSE /\ last'.status = 403
               /\ UNCHANGED <<comments, notifs, blogs, users, pending>>]_vars

\* A request refused with 403, and a comment of u2 deleted by the blog's
\* author u1.
C8_Witness ==
    /\ last.act = "delete-comment"
    /\ last.status = 403
    /\ last.u \notin {Doc(comments, last.id).commented_by, Doc(comments, last.id).blog_author}
    /\ store = <<pre.comments, pre.notifs, pre.blogs, pre.users>>

----------------------------------------------------------------------------
\* Likes

LikesOf(coll, u, b) == {d \in coll : d.type = "like" /\ d.user = u /\ d.blog = b}

\* A like and the unlike that followed it, by one user on one blog, both
\* completed.
LikePairDone == Quiescent /\ pre.req.act = "like-unlike"

\* C4: a like-blog request that turns the like of u on b on (u had no like
\* Notification on b) followed by one that turns it off returns total_likes
\* of b to its value before the pair and leaves no like Notification of u on b.
C4_LikeThenUnlike ==
    (/\ LikePairDone
     /\ Has(pre.blogs, pre.req.id)
     /\ LikesOf(pre.notifs, pre.req.u, pre.req.id) = {}) =>
        /\ Has(blogs, pre.req.id)
        /\ Doc(blogs, pre.req.id).total_likes = Doc(pre.blogs, pre.req.id).total_likes
        /\ LikesOf(notifs, pre.req.u, pre.req.id) = {}

\* The pair completed on Blog 1 while another user's like stands.
C4_Witness ==
    /\ LikePairDone
    /\ pre.req.id = 1
    /\ LikesOf(pre.notifs, pre.req.u, 1) = {}
    /\ last = Did("likeDelete", pre.req.u, 1, 200)
    /\ Doc(blogs, 1).total_likes = 1
    /\ \E d \in notifs : d.type = "like" /\ d.user # pre.req.u

----------------------------------------------------------------------------
\* Publishing

StoredValid ==
    \A b \in blogs :
        ~b.draft => /\ b.desc \in 1..200
                    /\ b.banner > 0
                    /\ b.blocks > 0
                    /\ b.tags \in 1..10

Refused == last'.status \in {403, 500} /\ UNCHANGED <<blogs, pending>>
Accepted == last'.status \in {0, 200}

\* The create-blog requests that the step just taken may have served.
CreateBlogRequests ==
    IF last'.act = "create-blog"
    THEN {last'.u} \X Payloads \X BOOLEAN \X {last'.id}
    ELSE {}

\* C6, as claimed: a create-blog request with draft false whose desc, banner,
\* blocks or tags fail the publish checks is rejected with no Blog written
\* or modified, the identical payload with draft true is accepted, and every
\* stored non-draft Blog passes the checks.
C6_Claimed ==
    /\ []StoredValid
    /\ [][\A r \in CreateBlogRequests :
            (CreateBlog(r[1], r[2], r[3], r[4]) /\ ~Publishable(r[2])) =>
                IF r[3] THEN Accepted ELSE Refused]_vars

\* C6, amended: the draft is accepted when it has a title and its sender is
\* an admin.
C6_PublishValidation ==
    /\ []StoredValid
    /\ [][\A r \in CreateBlogRequests :
            (CreateBlog(r[1], r[2], r[3], r[4]) /\ ~Publishable(r[2])) =>
                IF r[3]
                THEN (isAdmin(r[1]) /\ r[2].title > 0) => Accepted
                ELSE Refused]_vars

\* A draft stored with no tags, and then a request to publish refused.
C6_Witness ==
    /\ \E b \in blogs : b.draft /\ b.tags = 0
    /\ \E b \in blogs : ~b.draft
    /\ last.act = "create-blog"
    /\ last.status = 403
    /\ isAdmin(last.u)

\* C10: when the Blog has been saved (create-blog) or its read counter
\* updated (get-blog) and the update of the User's counter then fails, the
\* request is still answered as a success and the Blog stays as written.
C10_Claimed ==
    /\ last.act = "userPosts" => (last.status = 200 /\ Has(blogs, last.id))
    /\ last.act = "userReadsFails" => last.status = 0

----------------------------------------------------------------------------
\* Deleting a blog

BlogDeleted == pre.req.act = "delete-blog" /\ pre.req.status = 200

\* C9: a Blog is deleted only on the request of its author, an admin; and
\* once the operations of the request have run, no Comment and no
\* Notification of that blog is left.
C9_Claimed ==
    /\ (BlogDeleted /\ last = pre.req) =>
           /\ last.u = Doc(pre.blogs, last.id).author
           /\ isAdmin(last.u)
    /\ (BlogDeleted /\ Quiescent) =>
           /\ \A d \in comments : d.blog_id # pre.req.id
           /\ \A d \in notifs : d.blog # pre.req.id

----------------------------------------------------------------------------
\* The cascade on a comment that is already gone

InFlight(op, c) == {o \in BagToSet(pending) : o.op = op /\ o.c = c}

Created == 1..(nextComment - 1)

\* The comments whose push onto the Blog has been applied, and those whose
\* pull from it has.
Pushed == {c \in Created : InFlight("blogPush", c) = {}}
Pulled == {c \in Created : ~Has(comments, c) /\ InFlight("blogPull", c) = {}}

\* Each operation of a cascade is in flight once at most and only for a
\* comment that is gone, and Blog 1 has been lowered once for each comment
\* whose cascade has reached it.
BookkeepingOnce ==
    /\ \A o \in BagToSet(pending) :
          o.op \in {"parentPull", "notifDelete", "notifUnset", "blogPull"} =>
              CopiesIn(o, pending) = 1 /\ ~Has(comments, o.c)
    /\ Doc(blogs, 1).total_comments = Cardinality(Pushed) - Cardinality(Pulled)

\* A deleteComments call has found no document.
FoundNothing == last'.act = "deleteComments" /\ ~Has(comments, last'.id)

\* C11: deleteComments on an id whose Comment no longer exists changes no
\* Comment, Notification or Blog and sets off no further operation; with two
\* calls for one id in flight together the bookkeeping of that comment (the
\* pulls, the decrement, the recursion) is done once.
C11_DeleteIsIdempotent ==
    /\ []BookkeepingOnce
    /\ [][FoundNothing =>
            /\ UNCHANGED store
            /\ BagCardinality(pending') = BagCardinality(pending) - 1
            /\ \A o \in BagToSet(pending') : CopiesIn(o, pending') <= CopiesIn(o, pending)]_vars

\* The second of two calls for one id has just found nothing, while the
\* cascade of the first is on its way: the Notification of the comment has
\* been deleted, the pull from the Blog is still in flight.
C11_Witness ==
    /\ last.act = "deleteComments"
    /\ ~Has(comments, last.id)
    /\ InFlight("blogPull", last.id) # {}
    /\ InFlight("notifDelete", last.id) = {}
    /\ InFlight("deleteComments", last.id) = {}

----------------------------------------------------------------------------
\* Requests that name a Blog or Comment that does not exist

\* An error response, and nothing written or set off.
Reported ==
    /\ last'.status \in {403, 404, 500}
    /\ UNCHANGED store
    /\ UNCHANGED pending

\* C12: an add-comment, like-blog, delete-comment or get-blog request that
\* names a Blog or a Comment (the target, or the replying_to parent) that
\* does not exist is answered with an error and creates, deletes and
\* modifies no document and no counter.
C12_Claimed ==
    [][/\ \A u \in Users, b \in BlogIds, ba \in BlogAuthors,
            rt \in 0..MaxComments, n \in {NoId} \cup NotifIds :
            (/\ AddComment(u, b, ba, TRUE, rt, n)
             /\ ~Has(blogs, b) \/ (rt # NoId /\ ~Has(comments, rt))) => Reported
       /\ \A u \in Users, c \in 1..MaxComments :
            (DeleteComment(u, c) /\ ~Has(comments, c)) => Reported
       /\ \A u \in Users, b \in BlogIds, isLikedByUser \in BOOLEAN :
            (LikeBlog(u, b, isLikedByUser) /\ ~Has(blogs, b)) => Reported
       /\ \A b \in BlogIds, edit \in BOOLEAN :
            (GetBlog(b, edit) /\ ~Has(blogs, b)) => Reported]_vars

----------------------------------------------------------------------------
\* The comment counter of a Blog

\* C13: under any interleaving of add-comment and delete-comment requests on
\* Blog 1, whose counters start consistent, total_comments of the Blog
\* equals the number of ids in its comments.
C13_Claimed ==
    Doc(blogs, 1).total_comments = Cardinality(Doc(blogs, 1).comments)

----------------------------------------------------------------------------
\* The post counter of a User

PostsOf(u) == {b \in blogs : ~b.draft /\ b.author = u}

\* C14: when the create-blog and delete-blog requests made so far have
\* completed, total_posts of each user equals the number of existing
\* non-draft Blogs of which the user is the author, and is not negative.
C14_Claimed ==
    Quiescent =>
        \A u \in Users :
            /\ users[u].total_posts = Cardinality(PostsOf(u))
            /\ users[u].total_posts >= 0

====
